---- MODULE Spec2Model ----
(***************************************************************************)
(* Model of the restaurant ordering server (src/server/index.js and        *)
(* src/server/dao/dao-restaurant.js): the SQLite tables the order paths    *)
(* touch and the request handlers POST /api/orders and                     *)
(* DELETE /api/orders/:id.  Every await / sqlite callback of a handler is  *)
(* one step: statements of different requests interleave freely, and each  *)
(* statement is atomic in SQLite.  The session a request arrives in        *)
(* (req.user, req.session.method) is an input of the request.              *)
(***************************************************************************)
EXTENDS Integers, Sequences, FiniteSets, TLC

VARIABLES
    availability,      \* ingredients.availability, per ingredient id
    orders,            \* table orders: sequence of rows, row id = index
    orderIngredients,  \* table order_ingredients: set of <<order_id, ingredient_id>>
    req,               \* the request being served in each slot
    restored,          \* history: <<order, ingredient>> pairs a cancel restored
    cancelCount,       \* history: number of successful status flips per order id
    doubleRestore,     \* history: some <<order, ingredient>> was restored twice
    roundTrip,         \* history: the latest create / cancel pair of one order
    catalog,           \* the ingredient rows one customer's orders are checked against
    ingredients,       \* RestaurantConfigurator: props.ingredients
    selectedSize,      \* RestaurantConfigurator: selectedSize (0 is null)
    selection,         \* RestaurantConfigurator: selectedIngredients
    call,              \* the POST /api/orders of that customer, and its answer
    refreshPending,    \* App: API.getIngredients() of the catch block not resolved
    steady             \* history: the selection was built on the current catalog

serverVars == <<availability, orders, orderIngredients, req,
                restored, cancelCount, doubleRestore, roundTrip>>

configuratorVars == <<catalog, ingredients, selectedSize, selection, call,
                      refreshPending, steady>>

vars == <<availability, orders, orderIngredients, req,
          restored, cancelCount, doubleRestore, roundTrip,
          catalog, ingredients, selectedSize, selection, call,
          refreshPending, steady>>

----------------------------------------------------------------------------
(* Bounds of the model *)

MaxOrders == 2
MaxLen == 2

----------------------------------------------------------------------------
(* The catalog: rows of the tables sizes, base_dishes, ingredients,        *)
(* ingredient_requirements and ingredient_incompatibilities.  A part of    *)
(* the sample data the README lists.                                       *)
(* The first specification (Spec) runs concurrent requests on this         *)
(* catalog; the second (Resolver) runs one customer's configurator and     *)
(* orders over a family of catalogs.                                       *)

Users == {1, 2}

\* the users who place orders; every user sends cancel requests
Customers == {1}

Slots == {1, 2}

Methods == {"none", "partial", "totp"}

NoUser == 0

Null == [null |-> TRUE, v |-> 0]

Fin(n) == [null |-> FALSE, v |-> n]

IngredientIds == {5, 6}

UnknownIngredient == 99

IngredientName == (5 :> "olives") @@ (6 :> "tuna")

IngredientPrice == (5 :> 70) @@ (6 :> 150)

\* the stock the runs start from: one unit of tuna left, olives unlimited
InitialAvailability == (5 :> Null) @@ (6 :> Fin(1))

\* ingredient_requirements rows <<ingredient_id, required_id>>
IngredientRequirements == {<<6, 5>>}

\* ingredient_incompatibilities rows <<ingredient_id, incompatible_with_id>>
IngredientIncompatibilities == {}

BaseDishIds == {1}

SizeIds == {1}

SizeBasePrice == (1 :> 500)

SizeMaxIngredients == (1 :> 3)

UnknownBaseDish == 9


RECURSIVE SeqsUpTo(_, _)
SeqsUpTo(S, n) ==
    IF n = 0 THEN {<<>>}
    ELSE LET shorter == SeqsUpTo(S, n - 1)
         IN  shorter \cup {Append(s, x) : s \in {t \in shorter : Len(t) = n - 1}, x \in S}

IngredientLists == SeqsUpTo(IngredientIds \cup {UnknownIngredient}, MaxLen)

\* the bodies of the POST /api/orders requests: <<dishId, ingredientIds>>
CreateInputs ==
    {<<<<1, 1>>, ids>> : ids \in IngredientLists} \cup {<<<<UnknownBaseDish, 1>>, <<>>>>}

OrderIds == 1..MaxOrders

\* the :id of the DELETE requests: not an id, the ids of the rows there can be
CancelIds == 0..MaxOrders

----------------------------------------------------------------------------
(* Small helpers *)

Range(f) == {f[x] : x \in DOMAIN f}

RECURSIVE SetToSeq(_)
\* the elements of a finite set of integers in ascending order
SetToSeq(S) ==
    IF S = {} THEN <<>>
    ELSE LET m == CHOOSE x \in S : \A y \in S : x <= y
         IN  <<m>> \o SetToSeq(S \ {m})

\* String.prototype.includes on a message held as a sequence of words
Includes(msg, part) ==
    \E k \in 0..(Len(msg) - Len(part)) :
        \A j \in 1..Len(part) : msg[k + j] = part[j]

----------------------------------------------------------------------------
(* dao-restaurant.js: the catalog reads *)

\* getAllIngredients: every ingredient row with the names it requires and
\* the names it is incompatible with (GROUP_CONCAT split on ',')
getAllIngredients(avail) ==
    [i \in IngredientIds |->
        [id           |-> i,
         name         |-> IngredientName[i],
         price        |-> IngredientPrice[i],
         availability |-> avail[i],
         requires     |-> [k \in DOMAIN SetToSeq({x[2] : x \in {y \in IngredientRequirements : y[1] = i}})
                              |-> IngredientName[SetToSeq({x[2] : x \in {y \in IngredientRequirements : y[1] = i}})[k]]],
         incompatible |-> [k \in DOMAIN SetToSeq({x[2] : x \in {y \in IngredientIncompatibilities : y[1] = i}})
                              |-> IngredientName[SetToSeq({x[2] : x \in {y \in IngredientIncompatibilities : y[1] = i}})[k]]]]]

NoDish == [found |-> FALSE, price |-> 0, maxIngredients |-> 0]

\* getDishById: the base dish joined with the size, or null
getDishById(dishId) ==
    IF dishId[1] \in BaseDishIds /\ dishId[2] \in SizeIds
    THEN [found |-> TRUE, price |-> SizeBasePrice[dishId[2]],
          maxIngredients |-> SizeMaxIngredients[dishId[2]]]
    ELSE NoDish

----------------------------------------------------------------------------
(* index.js, POST /api/orders: the validation of a selection against one   *)
(* catalog snapshot                                                        *)

Unavailable(ingredient) ==
    ~ingredient.availability.null /\ ingredient.availability.v <= 0

RECURSIVE FirstIngredientViolation(_, _)
\* the loop over ingredientIds: the first id that is unknown or out of stock
FirstIngredientViolation(ids, all) ==
    IF ids = <<>> THEN "none"
    ELSE IF Head(ids) \notin DOMAIN all THEN "invalid_ingredient"
    ELSE IF Unavailable(all[Head(ids)]) THEN "availability"
    ELSE FirstIngredientViolation(Tail(ids), all)

selectedIngredients(ids, all) == [k \in DOMAIN ids |-> all[ids[k]]]

selectedIngredientNames(ids, all) == [k \in DOMAIN ids |-> all[ids[k]].name]

\* a total that leaves the ingredients out
totalPriceOfDish(dish, ids, all) == dish.price

\* let totalPrice = dish.price; totalPrice += ingredient.price
totalPrice(dish, ids, all) ==
    LET RECURSIVE Sum(_)
        Sum(s) == IF s = <<>> THEN 0 ELSE all[Head(s)].price + Sum(Tail(s))
    IN  dish.price + Sum(ids)

incompatibleSelected(ingredient, names) ==
    LET Keep(n) == n \in Range(names) /\ n # ingredient.name
    IN  SelectSeq(ingredient.incompatible, Keep)

\* a check that looks only at the list of the first selected ingredient
HasIncompatibilityOfFirst(ids, all) ==
    ids # <<>> /\ incompatibleSelected(all[ids[1]], selectedIngredientNames(ids, all)) # <<>>

\* check 3: some selected ingredient lists another selected one
HasIncompatibility(ids, all) ==
    \E k \in DOMAIN ids :
        incompatibleSelected(all[ids[k]], selectedIngredientNames(ids, all)) # <<>>

RECURSIVE validateRequirements(_, _, _, _)
RECURSIVE CheckRequires(_, _, _, _, _)
\* validateRequirements(ingredient, checkedIngredients): the names missing
\* below `ingredient`, with the set of checked names it leaves behind
validateRequirements(ingredient, checked, ids, all) ==
    IF ingredient.name \in checked
    THEN [missing |-> <<>>, checked |-> checked]
    ELSE CheckRequires(ingredient.requires, <<>>, checked \cup {ingredient.name}, ids, all)

\* the for loop over ingredient.requires
CheckRequires(reqNames, missing, checked, ids, all) ==
    IF reqNames = <<>> THEN [missing |-> missing, checked |-> checked]
    ELSE LET reqName == Head(reqNames)
             names   == selectedIngredientNames(ids, all)
         IN  IF reqName \notin Range(names)
             THEN CheckRequires(Tail(reqNames), Append(missing, reqName), checked, ids, all)
             ELSE LET k   == CHOOSE j \in DOMAIN ids : names[j] = reqName
                      sub == validateRequirements(all[ids[k]], checked, ids, all)
                  IN  CheckRequires(Tail(reqNames), missing \o sub.missing,
                                    sub.checked, ids, all)

\* a check that validates only the first selected ingredient
HasMissingRequirementOfFirst(ids, all) ==
    ids # <<>> /\ validateRequirements(all[ids[1]], {}, ids, all).missing # <<>>

\* check 4: validateRequirements for every selected ingredient
HasMissingRequirement(ids, all) ==
    \E k \in DOMAIN ids : validateRequirements(all[ids[k]], {}, ids, all).missing # <<>>

\* checks 1 to 4 of the handler, in the order of the code
Violation(dish, ids, all) ==
    IF Len(ids) > dish.maxIngredients THEN "ingredient_count"
    ELSE IF FirstIngredientViolation(ids, all) # "none"
         THEN FirstIngredientViolation(ids, all)
    ELSE IF HasIncompatibility(ids, all) THEN "incompatibility"
    ELSE IF HasMissingRequirement(ids, all) THEN "requirements"
    ELSE "none"

\* check 5: the names of the ingredients the fresh snapshot shows unavailable
unavailableIngredients(ids, fresh) ==
    LET Gone(i) == i \notin DOMAIN fresh \/ Unavailable(fresh[i])
        Name(i) == IF i \in DOMAIN fresh THEN fresh[i].name ELSE "ID"
        gone    == SelectSeq(ids, Gone)
    IN  [k \in DOMAIN gone |-> Name(gone[k])]



----------------------------------------------------------------------------
(* The catalogs of the second specification: three ingredients, the        *)
(* requirement and incompatibility rows drawn from the pairs below, the    *)
(* stock one unit of olives and of tuna and unlimited anchovies; the       *)
(* orders of other customers take the units.                               *)

MaxPost == 3

CatalogIds == IngredientIds \cup {8}

CatalogName == IngredientName @@ (8 :> "anchovies")

CatalogPrice == IngredientPrice @@ (8 :> 150)

\* ingredient_requirements rows: tuna requires olives as in the sample data,
\* and rows that close a cycle, make chains and make a self-loop
RequiresPairs == {<<6, 5>>, <<5, 6>>, <<5, 8>>, <<8, 8>>, <<8, 6>>}

\* ingredient_incompatibilities rows: olives and anchovies, each direction a
\* row of its own
IncompatiblePairs == {<<5, 8>>, <<8, 5>>}

CatalogStock == (5 :> Fin(1)) @@ (6 :> Fin(1)) @@ (8 :> Null)

\* getAllIngredients on the tables with these rows
CatalogRows(requirements, incompatibilities, stock) ==
    [i \in CatalogIds |->
        LET Names(rows) ==
                LET others == SetToSeq({x[2] : x \in {y \in rows : y[1] = i}})
                IN  [k \in DOMAIN others |-> CatalogName[others[k]]]
        IN  [id           |-> i,
             name         |-> CatalogName[i],
             price        |-> CatalogPrice[i],
             availability |-> stock[i],
             requires     |-> Names(requirements),
             incompatible |-> Names(incompatibilities)]]

Catalogs ==
    {CatalogRows(rq, ic, CatalogStock) :
        rq \in SUBSET RequiresPairs, ic \in SUBSET IncompatiblePairs}

\* rows of the table sizes the configurator offers; the caps are such that
\* three ingredients can exceed one of them
ConfiguratorSizes ==
    (1 :> [id |-> 1, basePrice |-> 500, maxIngredients |-> 2]) @@
    (2 :> [id |-> 2, basePrice |-> 700, maxIngredients |-> 3])

UnknownSize == 9

\* getDishById and getSizes for a dish of base dish 1 and the size
ConfiguratorDish(sizeId) ==
    IF sizeId \in DOMAIN ConfiguratorSizes
    THEN [found |-> TRUE, price |-> ConfiguratorSizes[sizeId].basePrice,
          maxIngredients |-> ConfiguratorSizes[sizeId].maxIngredients]
    ELSE NoDish

\* the bodies of the POST /api/orders requests sent without the configurator
PostLists == SeqsUpTo(CatalogIds \cup {UnknownIngredient}, MaxPost)

NoAnswer == [tag |-> "none", ingredient |-> "", names |-> <<>>, missing |-> <<>>]

NoCall ==
    [phase |-> "none", ui |-> FALSE, size |-> 0, ids |-> <<>>, total |-> 0,
     answer |-> NoAnswer]

\* the configurator as it is mounted, on a catalog of the first specification
ConfiguratorIdle ==
    /\ catalog = getAllIngredients(InitialAvailability)
    /\ ingredients = catalog
    /\ selectedSize = 0
    /\ selection = <<>>
    /\ call = NoCall
    /\ refreshPending = FALSE
    /\ steady = TRUE

----------------------------------------------------------------------------
(* State *)

NoResponse == [status |-> 0, tag |-> "none"]

NoRoundTrip ==
    [phase |-> "none", slot |-> 0, order |-> 0, times |-> 0, pre |-> InitialAvailability]

\* A slot that serves no request.  The fields are the locals of the two
\* handlers and of the DAO calls they make.
Idle ==
    [kind |-> "idle", pc |-> "done", user |-> NoUser, method |-> "none",
     dish |-> <<0, 0>>, ids |-> <<>>, total |-> 0, sawOne |-> {},
     orderId |-> 0, todoInsert |-> {}, todoUpdate |-> {},
     rows |-> {}, todoRestore |-> {}, completed |-> 0,
     resp |-> NoResponse]

Init ==
    /\ availability = InitialAvailability
    /\ orders = <<>>
    /\ orderIngredients = {}
    /\ req = [r \in Slots |-> Idle]
    /\ restored = {}
    /\ cancelCount = [o \in OrderIds |-> 0]
    /\ doubleRestore = FALSE
    /\ roundTrip = NoRoundTrip
    /\ ConfiguratorIdle

Free(r) == req[r].pc = "done"

Quiescent == \A r \in Slots : Free(r)

\* a request is served in the lowest slot that is free
Takes(r) == Free(r) /\ \A x \in Slots : x < r => ~Free(x)

\* create requests that have not inserted their order row yet
PendingCreates ==
    {r \in Slots : req[r].kind = "create" /\ req[r].pc \in {"validate", "fresh", "insertOrder"}}

\* some create request of order o still has statements to run
CreatingOrder(o) ==
    \E r \in Slots : req[r].kind = "create" /\ req[r].pc = "writes" /\ req[r].orderId = o

\* what a finished request leaves in its slot: its response, for a cancel
\* request the session it came in, and the order id if cancelOrder ran
Answered(q, response) ==
    IF q.kind = "cancel"
    THEN [Idle EXCEPT !.kind = q.kind, !.resp = response, !.user = q.user,
                      !.method = q.method,
                      !.orderId = IF q.pc = "done" THEN 0 ELSE q.orderId]
    ELSE [Idle EXCEPT !.kind = q.kind, !.resp = response]

\* a request arrives in slot r; the slots keep the responses sent since
\* the latest arrival
Arrive(r, q) ==
    [x \in Slots |-> IF x = r THEN q ELSE IF Free(x) THEN Idle ELSE req[x]]

----------------------------------------------------------------------------
(* index.js: the middleware *)

isLoggedIn(user) == user # NoUser

\* a second middleware that lets every session through
isTotpAlways(method) == TRUE

\* req.session.method === 'totp'
isTotp(method) == method = "totp"

----------------------------------------------------------------------------
(* index.js and dao-restaurant.js: POST /api/orders *)

Respond(status, tag) == [status |-> status, tag |-> tag]

\* the ingredients of the list whose stock counter reads 1
StockOne(ids, avail) ==
    {i \in Range(ids) \cap IngredientIds : ~avail[i].null /\ avail[i].v = 1}

\* isLoggedIn, the dish and size lookups and the ingredient count check:
\* what the handler answers before it reads the ingredients
CreateGate(user, dish, ids) ==
    IF ~isLoggedIn(user) THEN "not_authenticated"
    ELSE IF ~getDishById(dish).found THEN "invalid_dish"
    ELSE IF Len(ids) > getDishById(dish).maxIngredients THEN "ingredient_count"
    ELSE "pass"

\* A POST /api/orders request arrives.  A request the gate answers reads no
\* table that changes and writes nothing: the model serves it between the
\* other requests.
CreateStart(r, user, dish, ids) ==
    /\ Takes(r)
    /\ Len(orders) + Cardinality(PendingCreates) < MaxOrders
    /\ CreateGate(user, dish, ids) # "pass" => Quiescent
    /\ LET q   == [Idle EXCEPT !.kind = "create", !.user = user,
                               !.dish = dish, !.ids = ids]
           g   == CreateGate(user, dish, ids)
       IN  req' = Arrive(r,
             IF g = "not_authenticated" THEN Answered(q, Respond(401, g))
             ELSE IF g # "pass" THEN Answered(q, Respond(400, g))
             ELSE [q EXCEPT !.pc = "validate"])
    /\ roundTrip' =
          IF Quiescent /\ roundTrip.phase = "restored"
          THEN [roundTrip EXCEPT !.phase = "creating", !.slot = r, !.order = 0]
          ELSE IF Quiescent
          THEN [NoRoundTrip EXCEPT !.phase = "creating", !.slot = r, !.pre = availability]
          ELSE NoRoundTrip
    /\ UNCHANGED <<availability, orders, orderIngredients,
                   restored, cancelCount, doubleRestore>>
    /\ UNCHANGED configuratorVars

\* the first getAllIngredients and checks 2 to 4 on its snapshot
CreateValidate(r) ==
    /\ req[r].kind = "create" /\ req[r].pc = "validate"
    /\ LET all  == getAllIngredients(availability)
           dish == getDishById(req[r].dish)
           v    == Violation(dish, req[r].ids, all)
       IN  req' = [req EXCEPT ![r] =
             IF v # "none"
             THEN Answered(req[r], Respond(400, v))
             ELSE [req[r] EXCEPT !.pc = "fresh",
                                 !.total = totalPrice(dish, req[r].ids, all),
                                 !.sawOne = StockOne(req[r].ids, availability)]]
    /\ UNCHANGED <<availability, orders, orderIngredients,
                   restored, cancelCount, doubleRestore, roundTrip>>
    /\ UNCHANGED configuratorVars

\* the row INSERT INTO orders adds
OrderRow(user, dish) ==
    [user |-> user, baseDish |-> dish[1], size |-> dish[2], status |-> "confirmed"]

\* a handler that inserts the order row before it runs check 5
CreateFreshInserting(r) ==
    /\ req[r].kind = "create" /\ req[r].pc = "fresh"
    /\ orders' = Append(orders, OrderRow(req[r].user, req[r].dish))
    /\ req' = [req EXCEPT ![r] =
          IF unavailableIngredients(req[r].ids, getAllIngredients(availability)) # <<>>
          THEN Answered(req[r], Respond(400, "availability_changed"))
          ELSE [req[r] EXCEPT !.pc = "writes", !.orderId = Len(orders) + 1,
                              !.todoInsert = DOMAIN req[r].ids]]
    /\ UNCHANGED <<availability, orderIngredients,
                   restored, cancelCount, doubleRestore, roundTrip>>
    /\ UNCHANGED configuratorVars

\* the second getAllIngredients and check 5; then createOrder is called
CreateFresh(r) ==
    /\ req[r].kind = "create" /\ req[r].pc = "fresh"
    /\ LET fresh == getAllIngredients(availability)
       IN  req' = [req EXCEPT ![r] =
             IF unavailableIngredients(req[r].ids, fresh) # <<>>
             THEN [Answered(req[r], Respond(400, "availability_changed"))
                      EXCEPT !.sawOne = req[r].sawOne]
             ELSE [req[r] EXCEPT !.pc = "insertOrder"]]
    /\ UNCHANGED <<availability, orders, orderIngredients,
                   restored, cancelCount, doubleRestore, roundTrip>>
    /\ UNCHANGED configuratorVars

\* createOrder's promise resolves: the handler answers 201 with the order id,
\* the dish, the ingredient ids and the total price (unless it answered before)
Created(q) == IF q.resp = NoResponse THEN [q EXCEPT !.resp = Respond(201, "created")] ELSE q

\* the request is over when no statement of it is left to run
Settle(q) ==
    IF q.todoInsert = {} /\ q.todoUpdate = {}
    THEN IF q.resp.tag = "created"
         THEN [q EXCEPT !.pc = "done"]
         ELSE [Answered(q, q.resp) EXCEPT !.orderId = q.orderId]
    ELSE q

TrackCreated(r, q) ==
    IF roundTrip.phase = "creating" /\ roundTrip.slot = r /\ q.resp # NoResponse
    THEN IF q.resp.tag = "created"
         THEN [roundTrip EXCEPT !.phase = "created", !.order = q.orderId]
         ELSE NoRoundTrip
    ELSE roundTrip

\* INSERT INTO orders; with no ingredients the promise resolves at once
DaoInsertOrder(r) ==
    /\ req[r].kind = "create" /\ req[r].pc = "insertOrder"
    /\ orders' = Append(orders, OrderRow(req[r].user, req[r].dish))
    /\ LET q == [req[r] EXCEPT !.orderId = Len(orders) + 1]
           n == IF q.ids = <<>>
                THEN Settle(Created(q))
                ELSE [q EXCEPT !.pc = "writes", !.todoInsert = DOMAIN q.ids]
       IN  /\ req' = [req EXCEPT ![r] = n]
           /\ roundTrip' = TrackCreated(r, n)
    /\ UNCHANGED <<availability, orderIngredients,
                   restored, cancelCount, doubleRestore>>
    /\ UNCHANGED configuratorVars

\* the message of the sqlite error on a duplicate primary key
UniqueConstraintMessage ==
    <<"SQLITE_CONSTRAINT", "UNIQUE", "constraint", "failed", "order_ingredients">>

\* the catch block of the handler
CreateFailure(message) ==
    IF Includes(message, <<"availability">>)
    THEN Respond(400, "availability")
    ELSE Respond(500, "error")

\* INSERT INTO order_ingredients for the k-th id; its callback queues the
\* UPDATE of that ingredient, or rejects on a duplicate row
DaoInsertIngredient(r, k) ==
    /\ req[r].kind = "create" /\ req[r].pc = "writes"
    /\ k \in req[r].todoInsert
    /\ LET row == <<req[r].orderId, req[r].ids[k]>>
           dup == row \in orderIngredients
           q   == [req[r] EXCEPT !.todoInsert = @ \ {k}]
           n   == IF dup
                  THEN Settle([q EXCEPT !.resp = IF q.resp = NoResponse
                                                  THEN CreateFailure(UniqueConstraintMessage)
                                                  ELSE q.resp])
                  ELSE [q EXCEPT !.todoUpdate = @ \cup {k}]
       IN  /\ orderIngredients' = orderIngredients \cup {row}
           /\ req' = [req EXCEPT ![r] = n]
           /\ roundTrip' = TrackCreated(r, n)
    /\ UNCHANGED <<availability, orders, restored, cancelCount, doubleRestore>>
    /\ UNCHANGED configuratorVars

\* the decrement without the condition availability > 0
DecrementUnguarded(avail, i) ==
    IF ~avail[i].null
    THEN [avail EXCEPT ![i] = Fin(avail[i].v - 1)]
    ELSE avail

\* UPDATE ingredients SET availability = availability - 1
\* WHERE id = ? AND availability IS NOT NULL AND availability > 0
DecrementAvailability(avail, i) ==
    IF ~avail[i].null /\ avail[i].v > 0
    THEN [avail EXCEPT ![i] = Fin(avail[i].v - 1)]
    ELSE avail

\* the UPDATE of the k-th id; its callback counts it and resolves the
\* promise when every id is counted
DaoUpdateAvailability(r, k) ==
    /\ req[r].kind = "create" /\ req[r].pc = "writes"
    /\ k \in req[r].todoUpdate
    /\ availability' = DecrementAvailability(availability, req[r].ids[k])
    /\ LET q == [req[r] EXCEPT !.todoUpdate = @ \ {k}, !.completed = @ + 1]
           n == Settle(IF q.completed = Len(q.ids) THEN Created(q) ELSE q)
       IN  /\ req' = [req EXCEPT ![r] = n]
           /\ roundTrip' = TrackCreated(r, n)
    /\ UNCHANGED <<orders, orderIngredients, restored, cancelCount, doubleRestore>>
    /\ UNCHANGED configuratorVars


----------------------------------------------------------------------------
(* index.js and dao-restaurant.js: DELETE /api/orders/:id *)

\* isLoggedIn, isTotp and check('id').isInt({min: 1}), in this order
CancelGate(user, method, id) ==
    IF ~isLoggedIn(user) THEN "not_authenticated"
    ELSE IF ~isTotp(method) THEN "missing_totp"
    ELSE IF id < 1 THEN "invalid_id"
    ELSE "pass"

\* A DELETE /api/orders/:id request arrives; as for CreateStart, a request
\* the gate answers is served between the other requests.
CancelStart(r, user, method, id) ==
    /\ Takes(r)
    /\ CancelGate(user, method, id) # "pass" => Quiescent
    /\ LET q == [Idle EXCEPT !.kind = "cancel", !.user = user,
                             !.method = method, !.orderId = id]
           g == CancelGate(user, method, id)
       IN  req' = Arrive(r,
             IF g = "invalid_id" THEN Answered(q, Respond(400, g))
             ELSE IF g # "pass" THEN Answered(q, Respond(401, g))
             ELSE [q EXCEPT !.pc = "getIngredients"])
    /\ roundTrip' =
          IF Quiescent /\ roundTrip.phase = "created" /\ roundTrip.order = id
          THEN [roundTrip EXCEPT !.phase = "cancelling", !.slot = r]
          ELSE NoRoundTrip
    /\ UNCHANGED <<availability, orders, orderIngredients,
                   restored, cancelCount, doubleRestore>>
    /\ UNCHANGED configuratorVars

\* SELECT ingredient_id FROM order_ingredients WHERE order_id = ?
CancelGetIngredients(r) ==
    /\ req[r].kind = "cancel" /\ req[r].pc = "getIngredients"
    /\ req' = [req EXCEPT ![r] =
          [req[r] EXCEPT
              !.pc = "updateOrder",
              !.rows = {i \in IngredientIds : <<req[r].orderId, i>> \in orderIngredients}]]
    /\ UNCHANGED <<availability, orders, orderIngredients,
                   restored, cancelCount, doubleRestore, roundTrip>>
    /\ UNCHANGED configuratorVars

\* UPDATE orders SET status = 'cancelled'
\* WHERE id = ? AND user_id = ? AND status = 'confirmed': the rows it changes
CancelMatches(table, orderId, userId) ==
    {o \in DOMAIN table :
        o = orderId /\ table[o].user = userId /\ table[o].status = "confirmed"}

\* an UPDATE that also sets a cancelled row of the user back to confirmed
CancelWritesToggle(table, orderId, userId) ==
    [o \in DOMAIN table |->
        IF o = orderId /\ table[o].user = userId
        THEN [table[o] EXCEPT !.status = IF @ = "confirmed" THEN "cancelled" ELSE "confirmed"]
        ELSE table[o]]

\* an UPDATE without the condition on user_id
CancelWritesOfAnyUser(table, orderId, userId) ==
    [o \in DOMAIN table |->
        IF o = orderId /\ table[o].status = "confirmed"
        THEN [table[o] EXCEPT !.status = "cancelled"]
        ELSE table[o]]

\* the table the UPDATE leaves
CancelWrites(table, orderId, userId) ==
    [o \in DOMAIN table |->
        IF o \in CancelMatches(table, orderId, userId)
        THEN [table[o] EXCEPT !.status = "cancelled"]
        ELSE table[o]]

\* a rejection that tells the three cases apart
CancelRejectionTelling(table, orderId, userId) ==
    IF orderId \notin DOMAIN table
    THEN <<"Order", "not", "found">>
    ELSE IF table[orderId].user # userId
    THEN <<"Order", "of", "another", "user">>
    ELSE <<"Order", "already", "cancelled">>

\* the error cancelOrder rejects with when the UPDATE changes no row
CancelRejection(table, orderId, userId) ==
    <<"Order", "not", "found", "or", "cannot", "be", "cancelled">>

\* the catch block of the handler
CancelFailure(message) ==
    IF Includes(message, <<"not", "found">>)
    THEN [status |-> 404, tag |-> "not_found", error |-> message]
    ELSE [status |-> 500, tag |-> "error", error |-> message]

TrackCancelled(r, q) ==
    IF roundTrip.phase = "cancelling" /\ roundTrip.slot = r /\ q.resp # NoResponse
    THEN IF q.resp.tag = "cancelled"
         THEN [roundTrip EXCEPT !.phase = "restored", !.times = @ + 1]
         ELSE NoRoundTrip
    ELSE roundTrip

\* the UPDATE of the order row; this.changes decides between the rejection,
\* the immediate resolve and the restore statements
CancelUpdateOrder(r) ==
    /\ req[r].kind = "cancel" /\ req[r].pc = "updateOrder"
    /\ LET id      == req[r].orderId
           changes == Cardinality(CancelMatches(orders, id, req[r].user))
           n == IF changes = 0
                THEN Answered(req[r], CancelFailure(CancelRejection(orders, id, req[r].user)))
                ELSE IF req[r].rows = {}
                THEN Answered(req[r], Respond(200, "cancelled"))
                ELSE [req[r] EXCEPT !.pc = "restore", !.todoRestore = req[r].rows]
       IN  /\ orders' = CancelWrites(orders, id, req[r].user)
           /\ cancelCount' = IF changes # 0
                             THEN [cancelCount EXCEPT ![id] = @ + 1]
                             ELSE cancelCount
           /\ req' = [req EXCEPT ![r] = n]
           /\ roundTrip' = TrackCancelled(r, n)
    /\ UNCHANGED <<availability, orderIngredients, restored, doubleRestore>>
    /\ UNCHANGED configuratorVars

\* a restore that adds two units
RestoreTwice(avail, i) ==
    IF ~avail[i].null
    THEN [avail EXCEPT ![i] = Fin(avail[i].v + 2)]
    ELSE avail

\* a restore without the condition availability IS NOT NULL
RestoreUnlimited(avail, i) ==
    [avail EXCEPT ![i] = Fin(avail[i].v + 1)]

\* UPDATE ingredients SET availability = availability + 1
\* WHERE id = ? AND availability IS NOT NULL
RestoreAvailability(avail, i) ==
    IF ~avail[i].null
    THEN [avail EXCEPT ![i] = Fin(avail[i].v + 1)]
    ELSE avail

\* a restore that deletes the order_ingredients row it has restored
CancelRestoreDeleting(r, i) ==
    /\ req[r].kind = "cancel" /\ req[r].pc = "restore"
    /\ i \in req[r].todoRestore
    /\ availability' = RestoreAvailability(availability, i)
    /\ orderIngredients' = orderIngredients \ {<<req[r].orderId, i>>}
    /\ restored' = restored \cup {<<req[r].orderId, i>>}
    /\ doubleRestore' = (doubleRestore \/ <<req[r].orderId, i>> \in restored)
    /\ LET q == [req[r] EXCEPT !.todoRestore = @ \ {i}, !.completed = @ + 1]
           n == IF q.completed = Cardinality(q.rows)
                THEN Answered(q, Respond(200, "cancelled"))
                ELSE q
       IN  /\ req' = [req EXCEPT ![r] = n]
           /\ roundTrip' = TrackCancelled(r, n)
    /\ UNCHANGED <<orders, cancelCount>>
    /\ UNCHANGED configuratorVars

\* the restore of one ingredient of the order; its callback counts it and
\* resolves the promise when every row is counted
CancelRestore(r, i) ==
    /\ req[r].kind = "cancel" /\ req[r].pc = "restore"
    /\ i \in req[r].todoRestore
    /\ availability' = RestoreAvailability(availability, i)
    /\ restored' = restored \cup {<<req[r].orderId, i>>}
    /\ doubleRestore' = (doubleRestore \/ <<req[r].orderId, i>> \in restored)
    /\ LET q == [req[r] EXCEPT !.todoRestore = @ \ {i}, !.completed = @ + 1]
           n == IF q.completed = Cardinality(q.rows)
                THEN Answered(q, Respond(200, "cancelled"))
                ELSE q
       IN  /\ req' = [req EXCEPT ![r] = n]
           /\ roundTrip' = TrackCancelled(r, n)
    /\ UNCHANGED <<orders, orderIngredients, cancelCount>>
    /\ UNCHANGED configuratorVars

RECURSIVE SumPrices(_)
\* ingredientPrices.reduce((sum, price) => sum + price, 0)
SumPrices(S) ==
    IF S = {} THEN 0
    ELSE LET i == CHOOSE x \in S : TRUE IN IngredientPrice[i] + SumPrices(S \ {i})

\* getUserOrders: what it reports for order o of the tables given, the dish
\* from the order row, the ingredients from the order_ingredients rows and
\* the total computed from the prices
ReportedOrder(table, rows, o) ==
    LET ids == {i \in IngredientIds : <<o, i>> \in rows}
    IN  [id          |-> o,
         userId      |-> table[o].user,
         dish        |-> <<table[o].baseDish, table[o].size>>,
         ingredients |-> ids,
         totalPrice  |-> SizeBasePrice[table[o].size] + SumPrices(ids)]

getUserOrders(userId) ==
    {ReportedOrder(orders, orderIngredients, o) :
        o \in {x \in DOMAIN orders : orders[x].user = userId}}

----------------------------------------------------------------------------
(* index.js: POST /api/orders of one customer against the catalog, with    *)
(* the orders of other customers taking stock in between                   *)

\* the ingredient the availability violation names: the first of the list
\* that is out of stock
FirstUnavailableName(ids, all) ==
    LET Out(i) == i \in DOMAIN all /\ Unavailable(all[i])
        out    == SelectSeq(ids, Out)
    IN  IF out = <<>> THEN "" ELSE all[Head(out)].name

\* the first selected ingredient whose requirements are not valid, with the
\* missing names validateRequirements returned for it
RequirementsReport(ids, all) ==
    LET Bad(k) == validateRequirements(all[ids[k]], {}, ids, all).missing # <<>>
        first  == CHOOSE k \in DOMAIN ids : Bad(k) /\ \A j \in 1..(k - 1) : ~Bad(j)
    IN  [ingredient |-> all[ids[first]].name,
         missing    |-> validateRequirements(all[ids[first]], {}, ids, all).missing]

\* the body of the 400 answer to a violation
Rejection(v, ids, all) ==
    IF v = "availability"
    THEN [NoAnswer EXCEPT !.tag = v, !.ingredient = FirstUnavailableName(ids, all)]
    ELSE IF v = "requirements"
    THEN [NoAnswer EXCEPT !.tag = v,
                          !.ingredient = RequirementsReport(ids, all).ingredient,
                          !.missing = RequirementsReport(ids, all).missing]
    ELSE [NoAnswer EXCEPT !.tag = v]

RECURSIVE DecrementEach(_, _)
\* createOrder's UPDATE for every id of the sequence
DecrementEach(avail, idSeq) ==
    IF idSeq = <<>> THEN avail
    ELSE DecrementEach(DecrementAvailability(avail, Head(idSeq)), Tail(idSeq))

\* the catalog after createOrder wrote the rows of the ids: one
\* order_ingredients row and one UPDATE per distinct id
AfterCreateOrder(all, ids) ==
    LET stock == DecrementEach([i \in DOMAIN all |-> all[i].availability],
                               SetToSeq(Range(ids)))
    IN  [i \in DOMAIN all |-> [all[i] EXCEPT !.availability = stock[i]]]

\* a request sent to the API without the configurator, while the
\* configurator is as mounted
PostOrder(size, ids) ==
    /\ call.phase = "none" /\ ~refreshPending
    /\ selectedSize = 0 /\ selection = <<>>
    /\ call' = [NoCall EXCEPT !.phase = "validate", !.size = size, !.ids = ids]
    /\ UNCHANGED <<catalog, ingredients, selectedSize, selection, refreshPending, steady>>
    /\ UNCHANGED serverVars

\* the dish and size lookups and checks 1 to 4 on the first snapshot
ServerValidate ==
    /\ call.phase = "validate"
    /\ LET dish == ConfiguratorDish(call.size)
           v    == IF ~dish.found THEN "invalid_dish"
                   ELSE Violation(dish, call.ids, catalog)
       IN  call' = IF v # "none"
                   THEN [call EXCEPT !.phase = "answered",
                                     !.answer = Rejection(v, call.ids, catalog)]
                   ELSE [call EXCEPT !.phase = "fresh",
                                     !.total = totalPrice(dish, call.ids, catalog)]
    /\ UNCHANGED <<catalog, ingredients, selectedSize, selection, refreshPending, steady>>
    /\ UNCHANGED serverVars

\* check 5 on the second snapshot, then createOrder; a list that holds an id
\* twice fails on the primary key of order_ingredients
ServerFresh ==
    /\ call.phase = "fresh"
    /\ LET gone == unavailableIngredients(call.ids, catalog)
       IN  IF gone # <<>>
           THEN /\ call' = [call EXCEPT !.phase = "answered",
                                        !.answer = [NoAnswer EXCEPT !.tag = "availability_changed",
                                                                    !.names = gone]]
                /\ UNCHANGED <<catalog, steady>>
           ELSE /\ call' = [call EXCEPT !.phase = "answered",
                                        !.answer = [NoAnswer EXCEPT !.tag =
                                            IF Cardinality(Range(call.ids)) = Len(call.ids)
                                            THEN "created" ELSE "error"]]
                /\ catalog' = AfterCreateOrder(catalog, call.ids)
                /\ steady' = (steady /\ catalog' = catalog)
    /\ UNCHANGED <<ingredients, selectedSize, selection, refreshPending>>
    /\ UNCHANGED serverVars

\* the answer to a request sent without the configurator is read
PostDone ==
    /\ call.phase = "answered" /\ ~call.ui
    /\ call' = NoCall
    /\ UNCHANGED <<catalog, ingredients, selectedSize, selection, refreshPending, steady>>
    /\ UNCHANGED serverVars

\* the order of another customer takes a unit of ingredient i
OtherOrder(i) ==
    /\ ~catalog[i].availability.null /\ catalog[i].availability.v > 0
    /\ catalog' = AfterCreateOrder(catalog, <<i>>)
    /\ steady' = FALSE
    /\ UNCHANGED <<ingredients, selectedSize, selection, call, refreshPending>>
    /\ UNCHANGED serverVars

----------------------------------------------------------------------------
(* RestaurantConfigurator.jsx and App.jsx *)

AddFailure == [success |-> FALSE, selection |-> <<>>]

\* the names of the selected ids the snapshot knows
SelectedNames(sel, ings) ==
    {ings[i].name : i \in Range(sel) \cap DOMAIN ings}

\* an add that leaves the required ingredients out
addIngredientAlone(ingredientId, currentSelection, maxIngredients, ings) ==
    IF ingredientId \in Range(currentSelection)
    THEN [success |-> TRUE, selection |-> currentSelection]
    ELSE [success |-> TRUE, selection |-> Append(currentSelection, ingredientId)]

RECURSIVE addRequiredIngredientsRecursively(_, _, _, _)
RECURSIVE AddRequires(_, _, _, _)
addRequiredIngredientsRecursively(ingredientId, currentSelection, maxIngredients, ings) ==
    IF ingredientId \notin DOMAIN ings THEN AddFailure
    ELSE LET ingredient == ings[ingredientId]
             isNew      == ingredientId \notin Range(currentSelection)
         IN  IF isNew /\ Len(currentSelection) >= maxIngredients THEN AddFailure
             ELSE IF isNew /\ Unavailable(ingredient) THEN AddFailure
             ELSE IF isNew /\ Range(ingredient.incompatible)
                                 \cap SelectedNames(currentSelection, ings) # {}
                  THEN AddFailure
             ELSE AddRequires(ingredient.requires,
                              IF isNew THEN Append(currentSelection, ingredientId)
                                       ELSE currentSelection,
                              maxIngredients, ings)

\* the for loop over ingredient.requires
AddRequires(reqNames, newSelection, maxIngredients, ings) ==
    IF reqNames = <<>> THEN [success |-> TRUE, selection |-> newSelection]
    ELSE LET found == {i \in DOMAIN ings : ings[i].name = Head(reqNames)}
         IN  IF found = {} \/ (CHOOSE i \in found : TRUE) \in Range(newSelection)
             THEN AddRequires(Tail(reqNames), newSelection, maxIngredients, ings)
             ELSE LET result == addRequiredIngredientsRecursively(
                                    CHOOSE i \in found : TRUE, newSelection,
                                    maxIngredients, ings)
                  IN  IF ~result.success THEN AddFailure
                      ELSE AddRequires(Tail(reqNames), result.selection,
                                       maxIngredients, ings)

\* prev.filter(id => id !== ingredientId)
Without(sel, ingredientId) ==
    LET Keep(i) == i # ingredientId IN SelectSeq(sel, Keep)

\* a toggle that keeps the ingredient when its expansion fails
TogglePartial(ingredientId, sel, size, ings) ==
    IF ingredientId \notin DOMAIN ings THEN sel
    ELSE IF ingredientId \in Range(sel)
    THEN IF \E i \in Range(sel) \cap DOMAIN ings :
                ings[ingredientId].name \in Range(ings[i].requires)
         THEN sel
         ELSE Without(sel, ingredientId)
    ELSE IF size = 0 THEN sel
    ELSE IF Len(sel) >= ConfiguratorSizes[size].maxIngredients THEN sel
    ELSE IF Unavailable(ings[ingredientId]) THEN sel
    ELSE IF Range(ings[ingredientId].incompatible) \cap SelectedNames(sel, ings) # {}
    THEN sel
    ELSE LET result == addRequiredIngredientsRecursively(
                           ingredientId, sel, ConfiguratorSizes[size].maxIngredients, ings)
         IN  IF result.success THEN result.selection ELSE Append(sel, ingredientId)

\* handleIngredientToggle: the selection it sets (the same one where it
\* reports an error)
Toggle(ingredientId, sel, size, ings) ==
    IF ingredientId \notin DOMAIN ings THEN sel
    ELSE IF ingredientId \in Range(sel)
    THEN IF \E i \in Range(sel) \cap DOMAIN ings :
                ings[ingredientId].name \in Range(ings[i].requires)
         THEN sel
         ELSE Without(sel, ingredientId)
    ELSE IF size = 0 THEN sel
    ELSE IF Len(sel) >= ConfiguratorSizes[size].maxIngredients THEN sel
    ELSE IF Unavailable(ings[ingredientId]) THEN sel
    ELSE IF Range(ings[ingredientId].incompatible) \cap SelectedNames(sel, ings) # {}
    THEN sel
    ELSE LET result == addRequiredIngredientsRecursively(
                           ingredientId, sel, ConfiguratorSizes[size].maxIngredients, ings)
         IN  IF result.success THEN result.selection ELSE sel

\* the user acts on the configurator between two requests
UserAtConfigurator == call.phase = "none"

\* a size selection that does not look at the number of selected ingredients
handleSizeSelectAlways(size) ==
    /\ UserAtConfigurator
    /\ selectedSize' = size
    /\ UNCHANGED <<catalog, ingredients, selection, call, refreshPending, steady>>
    /\ UNCHANGED serverVars

\* handleSizeSelect: a size too small for the selection is refused
handleSizeSelect(size) ==
    /\ UserAtConfigurator
    /\ Len(selection) <= ConfiguratorSizes[size].maxIngredients
    /\ selectedSize' = size
    /\ UNCHANGED <<catalog, ingredients, selection, call, refreshPending, steady>>
    /\ UNCHANGED serverVars

handleIngredientToggle(ingredientId) ==
    /\ UserAtConfigurator
    /\ selection' = Toggle(ingredientId, selection, selectedSize, ingredients)
    /\ UNCHANGED <<catalog, ingredients, selectedSize, call, refreshPending, steady>>
    /\ UNCHANGED serverVars

\* handleSubmitOrder up to the await, with a base dish selected
handleSubmitOrder ==
    /\ call.phase = "none"
    /\ selectedSize # 0
    /\ call' = [NoCall EXCEPT !.phase = "validate", !.ui = TRUE,
                              !.size = selectedSize, !.ids = selection]
    /\ UNCHANGED <<catalog, ingredients, selectedSize, selection, refreshPending, steady>>
    /\ UNCHANGED serverVars

\* the callback handleSubmitOrder passes to createOrder
handleUnavailableIngredient(sel, unavailableIngredientName, ings) ==
    LET found == {i \in DOMAIN ings : ings[i].name = unavailableIngredientName}
    IN  IF found = {} THEN sel ELSE Without(sel, CHOOSE i \in found : TRUE)

\* the answers that carry a constraintViolation
ConstraintViolations ==
    {"ingredient_count", "invalid_ingredient", "availability", "incompatibility",
     "requirements", "availability_changed"}

\* handleCreateOrder after the answer: on success the ingredients are
\* fetched again and handleSubmitOrder resets the form; on a violation the
\* catch block runs and a refresh of the ingredients is started
handleCreateOrder ==
    /\ call.phase = "answered" /\ call.ui
    /\ call' = NoCall
    /\ IF call.answer.tag = "created"
       THEN /\ ingredients' = catalog
            /\ selectedSize' = 0
            /\ selection' = <<>>
            /\ steady' = TRUE
            /\ UNCHANGED refreshPending
       ELSE /\ selection' =
                  IF call.answer.tag = "availability" /\ call.answer.ingredient # ""
                  THEN handleUnavailableIngredient(selection, call.answer.ingredient, ingredients)
                  ELSE selection
            /\ refreshPending' = (refreshPending \/ call.answer.tag \in ConstraintViolations)
            /\ steady' = FALSE
            /\ UNCHANGED <<ingredients, selectedSize>>
    /\ UNCHANGED catalog
    /\ UNCHANGED serverVars

\* API.getIngredients() of the catch block resolves: setIngredients
RefreshIngredients ==
    /\ refreshPending
    /\ refreshPending' = FALSE
    /\ ingredients' = catalog
    /\ steady' = (selection = <<>>)
    /\ UNCHANGED <<catalog, selectedSize, selection, call>>
    /\ UNCHANGED serverVars

----------------------------------------------------------------------------
(* Specification *)

StartStep ==
    \E r \in Slots :
        \/ \E user \in Customers \cup {NoUser}, in \in CreateInputs :
              CreateStart(r, user, in[1], in[2])
        \/ \E user \in Users \cup {NoUser}, method \in Methods, id \in CancelIds :
              CancelStart(r, user, method, id)

RequestStep ==
    \E r \in Slots :
        \/ CreateValidate(r)
        \/ CreateFresh(r)
        \/ DaoInsertOrder(r)
        \/ \E k \in 1..MaxLen : DaoInsertIngredient(r, k)
        \/ \E k \in 1..MaxLen : DaoUpdateAvailability(r, k)
        \/ CancelGetIngredients(r)
        \/ CancelUpdateOrder(r)
        \/ \E i \in IngredientIds : CancelRestore(r, i)

Next == StartStep \/ RequestStep

\* any number of sessions racing on the shared tables
Spec == Init /\ [][Next]_vars

----------------------------------------------------------------------------
(* Second specification: one customer's configurator and orders on every  *)
(* catalog of the family                                                   *)

ResolverInit ==
    /\ availability = InitialAvailability
    /\ orders = <<>>
    /\ orderIngredients = {}
    /\ req = [r \in Slots |-> Idle]
    /\ restored = {}
    /\ cancelCount = [o \in OrderIds |-> 0]
    /\ doubleRestore = FALSE
    /\ roundTrip = NoRoundTrip
    /\ catalog \in Catalogs
    /\ ingredients = catalog
    /\ selectedSize = 0
    /\ selection = <<>>
    /\ call = NoCall
    /\ refreshPending = FALSE
    /\ steady = TRUE

ServerStep ==
    \/ \E size \in DOMAIN ConfiguratorSizes \cup {UnknownSize}, ids \in PostLists :
          PostOrder(size, ids)
    \/ ServerValidate
    \/ ServerFresh
    \/ PostDone
    \/ \E i \in CatalogIds : OtherOrder(i)

ConfiguratorStep ==
    \/ \E size \in DOMAIN ConfiguratorSizes : handleSizeSelect(size)
    \/ \E i \in CatalogIds : handleIngredientToggle(i)
    \/ handleSubmitOrder
    \/ handleCreateOrder
    \/ RefreshIngredients

ResolverNext == ServerStep \/ ConfiguratorStep

Resolver == ResolverInit /\ [][ResolverNext]_vars


----------------------------------------------------------------------------
(* Properties *)

Finite(i) == ~InitialAvailability[i].null

Confirmed(o) == o \in DOMAIN orders /\ orders[o].status = "confirmed"

NoCancellation == \A o \in DOMAIN orders : orders[o].status = "confirmed"

AnsweredCreate(r) ==
    req[r].kind = "create" /\ req[r].pc = "done" /\ req[r].resp # NoResponse

\* the two slots hold the answers to two create requests that both read
\* stock 1 for the same ingredient, and no unit was ever given back
RaceOnLastUnit(r1, r2) ==
    /\ r1 # r2
    /\ AnsweredCreate(r1) /\ AnsweredCreate(r2)
    /\ req[r1].sawOne \cap req[r2].sawOne # {}
    /\ NoCancellation

\* C1: of two concurrent create requests that both select an ingredient
\* with stock 1, exactly one is answered with a confirmed order and the
\* other with availability_changed.
C1_RaceOneWinner ==
    \A r1, r2 \in Slots :
        RaceOnLastUnit(r1, r2) =>
            \/ req[r1].resp.tag = "created" /\ req[r2].resp.tag = "availability_changed"
            \/ req[r2].resp.tag = "created" /\ req[r1].resp.tag = "availability_changed"

\* C2: the writes of createOrder are atomic: in no state does the order row
\* of a request exist while one of its order-ingredient rows or one of its
\* stock decrements is still to be applied.
C2_CreateAtomic ==
    \A r \in Slots :
        (req[r].kind = "create" /\ req[r].orderId \in DOMAIN orders) =>
            (req[r].todoInsert = {} /\ req[r].todoUpdate = {})

ConfirmedWith(i) == {o \in DOMAIN orders : Confirmed(o) /\ <<o, i>> \in orderIngredients}

\* C3: with no request in flight, the stock of every finite-stock
\* ingredient plus the number of confirmed orders that contain it equals its
\* initial stock.
C3_StockConservation ==
    Quiescent =>
        \A i \in IngredientIds :
            Finite(i) =>
                availability[i].v + Cardinality(ConfirmedWith(i)) = InitialAvailability[i].v

\* C4: every finite stock counter is greater than or equal to zero, in every
\* reachable state.
C4_StockNonNegative ==
    \A i \in IngredientIds : ~availability[i].null => availability[i].v >= 0

\* two confirmed orders hold the ingredient whose single unit was in stock:
\* the second decrement met a counter of zero and left it there
C4_Witness ==
    \E i \in IngredientIds :
        /\ Finite(i) /\ InitialAvailability[i].v = 1
        /\ Cardinality(ConfirmedWith(i)) = 2
        /\ availability[i].v = 0
        /\ Quiescent

\* C5: a successful create followed by a successful cancel of the same
\* order, with no other request between or beside them, leaves every stock
\* counter at the value it had before the create; so does the pair repeated.
C5_RoundTrip ==
    roundTrip.phase = "restored" => availability = roundTrip.pre

\* the pair ran twice and the orders held a finite-stock ingredient
C5_Witness ==
    /\ roundTrip.phase = "restored"
    /\ roundTrip.times = 2
    /\ \A o \in DOMAIN orders : \E i \in IngredientIds : Finite(i) /\ <<o, i>> \in restored


NotFoundResponse ==
    [status |-> 404, tag |-> "not_found",
     error |-> <<"Order", "not", "found", "or", "cannot", "be", "cancelled">>]

\* slot r serves a cancel request that passed the middleware
CancelRunning(r) ==
    req[r].kind = "cancel" /\ req[r].pc \in {"getIngredients", "updateOrder", "restore"}

\* in this step the request of slot r runs its UPDATE of the order row
RunsCancelUpdate(r) ==
    /\ req[r].kind = "cancel" /\ req[r].pc = "updateOrder"
    /\ req'[r] # req[r]

\* an order goes from confirmed to cancelled only in the UPDATE step of a
\* cancel request of its owner, whose session was logged in with method totp
CancelOnlyByOwnerWithTotp ==
    \A o \in DOMAIN orders :
        (orders[o].status = "confirmed" /\ orders'[o].status = "cancelled") =>
            \E r \in Slots :
                /\ RunsCancelUpdate(r)
                /\ req[r].orderId = o
                /\ req[r].user = orders[o].user
                /\ req[r].user # NoUser
                /\ req[r].method = "totp"

\* the answer to a cancel request from a session without completed TOTP
AnsweredWithoutTotp(r) ==
    /\ req[r].kind = "cancel" /\ req[r].pc = "done" /\ req[r].resp # NoResponse
    /\ req[r].method \in {"none", "partial"}

\* C6 as stated: cancellation only by the owner in an authenticated totp
\* session, and every request from a session that has not completed TOTP
\* (method unset or partial) is answered Missing TOTP authentication.
C6_AsStated ==
    \A r \in Slots : AnsweredWithoutTotp(r) => req[r].resp.tag = "missing_totp"

\* C6, amended: an order goes from confirmed to cancelled only by a DELETE
\* request of its owner in an authenticated session with method totp; a
\* request from an authenticated session that has not completed TOTP is
\* answered Missing TOTP authentication, one from a session that is not
\* authenticated is answered Not authenticated, and neither runs cancelOrder.
C6_CancelGated ==
    /\ [][CancelOnlyByOwnerWithTotp]_vars
    /\ [](\A r \in Slots :
            /\ CancelRunning(r) => (req[r].user # NoUser /\ req[r].method = "totp")
            /\ AnsweredWithoutTotp(r) =>
                  /\ req[r].orderId = 0
                  /\ req[r].resp = IF req[r].user = NoUser
                                   THEN Respond(401, "not_authenticated")
                                   ELSE Respond(401, "missing_totp"))

\* an order was cancelled, and a request from a logged-in session that
\* skipped TOTP was answered Missing TOTP authentication
C6_Witness ==
    /\ \E o \in DOMAIN orders : orders[o].status = "cancelled"
    /\ \E r \in Slots :
          /\ AnsweredWithoutTotp(r)
          /\ req[r].user # NoUser /\ req[r].method = "partial"
          /\ req[r].resp.tag = "missing_totp"

\* C7: the writes of cancelOrder are atomic: in no state is an order, whose
\* creation is over, cancelled while the counter of one of its finite-stock
\* ingredients is still to be incremented.
C7_CancelAtomic ==
    \A r \in Slots :
        (/\ req[r].kind = "cancel" /\ req[r].orderId \in DOMAIN orders
         /\ ~CreatingOrder(req[r].orderId)
         /\ orders[req[r].orderId].status = "cancelled") =>
            \A i \in req[r].todoRestore : ~Finite(i)

\* order o is cancelled and no request is restoring its ingredients
CancelSettled(o) ==
    /\ o \in DOMAIN orders /\ orders[o].status = "cancelled"
    /\ \A r \in Slots : ~(req[r].kind = "cancel" /\ req[r].pc = "restore" /\ req[r].orderId = o)

\* the cancel requests of the owner of order o that were answered
AnsweredCancels(o) ==
    {r \in Slots : /\ req[r].kind = "cancel" /\ req[r].pc = "done"
                   /\ req[r].resp # NoResponse /\ req[r].orderId = o
                   /\ o \in DOMAIN orders /\ req[r].user = orders[o].user}

\* C8: cancellation takes effect at most once per order: of any number of
\* cancel requests of the owner on one order, sequential or concurrent,
\* exactly one succeeds, the others are answered
\* not-found-or-not-cancellable, and each finite-stock ingredient of the
\* order is incremented exactly once in total.
C8_CancelOnce ==
    /\ \A o \in OrderIds : cancelCount[o] <= 1
    /\ \A o \in DOMAIN orders : orders[o].status = "cancelled" <=> cancelCount[o] = 1
    /\ \A o \in OrderIds : \A r \in AnsweredCancels(o) :
          req[r].resp.tag = "cancelled" \/ req[r].resp = NotFoundResponse
    /\ \A o \in OrderIds : Cardinality({r \in AnsweredCancels(o) : req[r].resp.tag = "cancelled"}) <= 1
    /\ ~doubleRestore
    /\ \A o \in OrderIds :
          (CancelSettled(o) /\ ~CreatingOrder(o)) =>
              \A i \in IngredientIds :
                  (Finite(i) /\ <<o, i>> \in orderIngredients) => <<o, i>> \in restored

\* no row leaves the table, and a cancelled row stays cancelled
OrdersMonotone ==
    /\ Len(orders') >= Len(orders)
    /\ \A o \in DOMAIN orders :
          /\ orders'[o].user = orders[o].user
          /\ orders[o].status = "cancelled" => orders'[o].status = "cancelled"

\* C9: the order lifecycle is monotone: an order that exists is never
\* removed from the store, and a cancelled order is never confirmed again.
C9_LifecycleMonotone == [][OrdersMonotone]_vars

\* a cancelled order met a further cancel request and a further create
C9_Witness ==
    /\ Len(orders) = 2
    /\ orders[1].status = "cancelled" /\ orders[2].status = "confirmed"
    /\ \E r \in Slots : req[r].kind = "cancel" /\ req[r].orderId = 1
                        /\ req[r].resp = NotFoundResponse

\* the three cases in which cancelOrder changes no row
NotCancellable(r) ==
    LET o == req[r].orderId
    IN  \/ o \notin DOMAIN orders
        \/ orders[o].user # req[r].user
        \/ orders[o].status = "cancelled"

\* C10: for a caller with completed second factor, cancelOrder gives one and
\* the same response when the order belongs to another user, when it is
\* already cancelled and when it does not exist.
C10_SingleResponse ==
    [][\A r \in Slots :
          (RunsCancelUpdate(r) /\ NotCancellable(r)) =>
              (req'[r].resp = NotFoundResponse /\ orders' = orders)]_vars

\* a totp caller was answered not found for an existing order of another user
C10_Witness ==
    \E r \in Slots :
        /\ req[r].kind = "cancel" /\ req[r].pc = "done" /\ req[r].method = "totp"
        /\ req[r].resp = NotFoundResponse
        /\ req[r].orderId \in DOMAIN orders
        /\ orders[req[r].orderId].user # req[r].user
        /\ orders[req[r].orderId].status = "confirmed"


\* the violations the validation of a create request answers with
ValidationTags ==
    {"invalid_dish", "ingredient_count", "invalid_ingredient", "availability",
     "incompatibility", "requirements", "availability_changed"}

\* in this step the create request of slot r is answered with a violation
RejectsCreate(r) ==
    /\ req'[r] # req[r]
    /\ req'[r].kind = "create" /\ req'[r].pc = "done"
    /\ req'[r].resp.tag \in ValidationTags

\* the create request of slot r has not reached createOrder
Validating(r) ==
    req[r].kind = "create" /\ req[r].pc \in {"validate", "fresh"}

\* C11: a create request rejected by validation performs no write: the step
\* that answers it leaves the orders, their ingredient rows and every stock
\* counter unchanged, and before it the request has run no statement that
\* writes.
C11_RejectionWritesNothing ==
    /\ [][\A r \in Slots :
            RejectsCreate(r) =>
                UNCHANGED <<orders, orderIngredients, availability>>]_vars
    /\ [](\A r \in Slots :
            Validating(r) =>
                /\ req[r].orderId = 0 /\ req[r].completed = 0
                /\ req[r].todoInsert = {} /\ req[r].todoUpdate = {})

\* a request was rejected with availability_changed after another request
\* took the unit it had read
C11_Witness ==
    \E r \in Slots :
        /\ req[r].kind = "create" /\ req[r].pc = "done"
        /\ req[r].resp.tag = "availability_changed"
        /\ Len(orders) = 1
        /\ \E i \in IngredientIds : Finite(i) /\ availability[i].v = 0

\* the create request of slot r passed validation and was answered 500
FailedCreate(r) ==
    req[r].kind = "create" /\ req[r].resp.tag = "error" /\ req[r].orderId # 0

\* C12: a create request that passes validation and fails in the
\* persistence step leaves behind no order row, no order-ingredient row and
\* no stock decrement.
C12_FailedCreateLeavesNothing ==
    \A r \in Slots :
        FailedCreate(r) =>
            /\ req[r].orderId \notin DOMAIN orders
            /\ \A i \in IngredientIds : <<req[r].orderId, i>> \notin orderIngredients
            /\ (Quiescent /\ Len(orders) <= 1) => availability = InitialAvailability


----------------------------------------------------------------------------
(* Properties of the validation, under Resolver *)

\* the ids of the list the snapshot knows
Known(ids, all) == Range(ids) \cap DOMAIN all

\* two different selected ingredients, one of which lists the other
IncompatiblePair(ids, all) ==
    \E a, b \in Known(ids, all) :
        a # b /\ (all[b].name \in Range(all[a].incompatible)
                    \/ all[a].name \in Range(all[b].incompatible))

\* the ids the ingredients of S require
RequiredBy(S, all) ==
    {b \in DOMAIN all : \E a \in S : all[b].name \in Range(all[a].requires)}

RECURSIVE RequiresClosure(_, _)
\* S with every ingredient required directly or transitively
RequiresClosure(S, all) ==
    IF RequiredBy(S, all) \subseteq S THEN S
    ELSE RequiresClosure(S \cup RequiredBy(S, all), all)

\* the violation the fixed order of the checks reports: invalid dish,
\* ingredient_count, invalid_ingredient, availability, incompatibility,
\* requirements
FixedOrderViolation(dish, ids, all) ==
    IF ~dish.found THEN "invalid_dish"
    ELSE IF Len(ids) > dish.maxIngredients THEN "ingredient_count"
    ELSE IF \E k \in DOMAIN ids : ids[k] \notin DOMAIN all THEN "invalid_ingredient"
    ELSE IF \E k \in DOMAIN ids : Unavailable(all[ids[k]]) THEN "availability"
    ELSE IF IncompatiblePair(ids, all) THEN "incompatibility"
    ELSE IF ~(RequiresClosure(Range(ids), all) \subseteq Range(ids)) THEN "requirements"
    ELSE "none"

\* this step runs the checks on the first snapshot
ValidateStep == call.phase = "validate" /\ call'.phase # "validate"

\* C13: an input that violates more than one rule is answered with the
\* violation that comes first in the fixed order invalid dish,
\* ingredient_count, invalid_ingredient, availability, incompatibility,
\* requirements, availability_changed; an unknown id is reported before an
\* out-of-stock id whatever their positions in the list.
C13_FirstInFixedOrder ==
    [][/\ ValidateStep =>
            LET v == FixedOrderViolation(ConfiguratorDish(call.size), call.ids, catalog)
            IN  IF v = "none" THEN call'.phase = "fresh"
                ELSE call'.phase = "answered" /\ call'.answer.tag = v
       /\ (call.answer.tag = "none" /\ call'.answer.tag = "availability_changed")
              => call.phase = "fresh"]_vars

\* the request passes the dish, count, existence and availability checks
PassesFirstChecks(dish, ids, all) ==
    /\ dish.found /\ Len(ids) <= dish.maxIngredients
    /\ \A k \in DOMAIN ids : ids[k] \in DOMAIN all /\ ~Unavailable(all[ids[k]])

\* C14: no order is confirmed whose ingredients contain a pair that the
\* incompatibility list of one of the two names, and a request that passes
\* the dish, count, existence and availability checks and contains such a
\* pair is rejected with incompatibility, also when only one of the two rows
\* of the pair is stored.
C14_NoIncompatiblePair ==
    /\ [](call.answer.tag = "created" => ~IncompatiblePair(call.ids, catalog))
    /\ [][(/\ ValidateStep
           /\ PassesFirstChecks(ConfiguratorDish(call.size), call.ids, catalog)
           /\ IncompatiblePair(call.ids, catalog))
              => call'.answer.tag = "incompatibility"]_vars

\* anchovies before olives was rejected on a catalog where only the row of
\* olives names anchovies
C14_Witness ==
    /\ call.phase = "answered" /\ call.answer.tag = "incompatibility"
    /\ call.ids = <<8, 5>>
    /\ catalog[8].incompatible = <<>>
    /\ catalog[5].incompatible = <<"anchovies">>

\* C15: on every catalog, also with cycles and self-loops in the
\* requirements, the requirement check ends; among the requests that pass
\* the earlier checks it accepts exactly those whose ingredients hold every
\* ingredient they require directly or transitively, and it rejects the
\* others with requirements, naming a selected ingredient and missing names.
C15_RequirementsExact ==
    [][(/\ ValidateStep
        /\ PassesFirstChecks(ConfiguratorDish(call.size), call.ids, catalog)
        /\ ~IncompatiblePair(call.ids, catalog))
           => IF RequiresClosure(Range(call.ids), catalog) \subseteq Range(call.ids)
              THEN call'.phase = "fresh"
              ELSE /\ call'.answer.tag = "requirements"
                   /\ call'.answer.ingredient \in {catalog[i].name : i \in Range(call.ids)}
                   /\ call'.answer.missing # <<>>
                   /\ \A n \in Range(call'.answer.missing) :
                         /\ n \notin {catalog[i].name : i \in Range(call.ids)}
                         /\ n \in {catalog[i].name :
                                     i \in RequiresClosure(Range(call.ids), catalog)}]_vars

\* an order of all three ingredients was accepted on the catalog with the
\* cycle tuna - olives, the chain to anchovies and the self-loop
C15_Witness ==
    /\ call.phase = "answered" /\ call.answer.tag = "created"
    /\ call.ids = <<6, 5, 8>>
    /\ catalog[6].requires = <<"olives">>
    /\ catalog[5].requires = <<"tuna", "anchovies">>
    /\ catalog[8].requires = <<"anchovies">>

RECURSIVE PriceOfSet(_)
\* the prices of the ingredients of a set, added up
PriceOfSet(S) ==
    IF S = {} THEN 0
    ELSE LET i == CHOOSE x \in S : TRUE IN CatalogPrice[i] + PriceOfSet(S \ {i})

\* C16: the totalPrice of an accepted order is the base price of the size
\* plus the sum of the prices of the selected ingredients, in cents; for an
\* empty list it is the base price.
C16_TotalPrice ==
    call.answer.tag = "created" =>
        /\ call.total = ConfiguratorSizes[call.size].basePrice + PriceOfSet(Range(call.ids))
        /\ call.ids = <<>> => call.total = ConfiguratorSizes[call.size].basePrice

\* three ingredients on the size of 7.00: 7.00 + 0.70 + 1.50 + 1.50
C16_Witness ==
    /\ call.answer.tag = "created"
    /\ Len(call.ids) = 3
    /\ call.total = 1070


----------------------------------------------------------------------------
(* Properties of the configurator, under Resolver *)

\* C17: a selection the configurator reaches by size selections and toggles
\* on a snapshot of the catalog is accepted by the validation of the server
\* on the same snapshot.
C17_ConfiguratorRefinesServer ==
    (steady /\ selectedSize # 0 /\ ingredients = catalog)
        => Violation(ConfiguratorDish(selectedSize), selection, catalog) = "none"

\* handleCreateOrder handles the answer of the server
HandlesAnswer == call.phase = "answered" /\ call.ui /\ call' = NoCall

\* C18: once the configurator has handled a rejection for availability or
\* availability_changed, no ingredient the server named unavailable is in
\* the selection.
C18_UnavailableDeselected ==
    [][HandlesAnswer =>
          /\ call.answer.tag = "availability"
                => call.answer.ingredient \notin SelectedNames(selection', ingredients)
          /\ call.answer.tag = "availability_changed"
                => Range(call.answer.names) \cap SelectedNames(selection', ingredients) = {}]_vars

\* C19: in every state of the configurator the ingredients a selected
\* ingredient requires are selected.
C19_RequirementsClosed ==
    \A i \in Range(selection) :
        Range(ingredients[i].requires) \subseteq SelectedNames(selection, ingredients)

\* C20: the selection never holds more ingredients than the selected size
\* allows and is empty while no size is selected; an addition beyond the
\* capacity and a change to a size below the count are denied.
C20_Capacity ==
    /\ [](IF selectedSize = 0 THEN selection = <<>>
          ELSE Len(selection) <= ConfiguratorSizes[selectedSize].maxIngredients)
    /\ [][/\ (selectedSize # 0 /\ Len(selection) >= ConfiguratorSizes[selectedSize].maxIngredients)
              => Len(selection') <= Len(selection)
          /\ (selectedSize' # selectedSize /\ selectedSize' # 0)
              => Len(selection) <= ConfiguratorSizes[selectedSize'].maxIngredients]_vars

\* the small size is full and a third ingredient is in stock
C20_Witness ==
    /\ selectedSize = 1
    /\ Len(selection) = ConfiguratorSizes[1].maxIngredients
    /\ \E i \in DOMAIN ingredients : i \notin Range(selection) /\ ~Unavailable(ingredients[i])


----------------------------------------------------------------------------
(* Properties of the catalog and of the toggles, under Resolver *)

\* the names the ingredient lists as incompatible, and as required
Incompatible(a, ings) == Range(ings[a].incompatible)

Requires(a, ings) == Range(ings[a].requires)

\* C21: whenever the table records A as incompatible with B, the catalog
\* lists each of the two in the incompatible set of the other, and no toggle
\* brings the two into the selection, whichever of them was selected first.
C21_IncompatibilitySymmetric ==
    \A a, b \in DOMAIN catalog :
        catalog[b].name \in Incompatible(a, catalog)
            => /\ catalog[a].name \in Incompatible(b, catalog)
               /\ ~({a, b} \subseteq Range(selection))

\* a toggle of the user: no request is in flight before or after the step
ToggleStep == call.phase = "none" /\ call' = call /\ selection' # selection

\* a toggle that added ingredients
AddStep == ToggleStep /\ Len(selection') > Len(selection)

\* C22: a successful add of X to the selection S yields S united with X and
\* every ingredient reachable from X along requires; nothing else is added,
\* nothing is removed and S keeps its order.
C22_AddIsClosure ==
    [][AddStep =>
          /\ SubSeq(selection', 1, Len(selection)) = selection
          /\ \E x \in CatalogIds \ Range(selection) :
                Range(selection') = Range(selection) \cup RequiresClosure({x}, ingredients)]_vars

\* capacity, stock and compatibility allow to add the set to the empty selection
Allows(S, maxIngredients, ings) ==
    /\ Cardinality(S) <= maxIngredients
    /\ \A i \in S : ~Unavailable(ings[i])
    /\ \A a, b \in S : ings[b].name \notin Incompatible(a, ings)

Dependents(x, sel, ings) ==
    {i \in Range(sel) \ {x} : ings[x].name \in Requires(i, ings)}

\* C24: toggling off a selected X removes X and only X when no other
\* selected ingredient lists X in its requires; when one does, the removal
\* is denied and the selection stays as it is.
C24_Deselect ==
    /\ [](call.phase = "none" =>
            \A x \in Range(selection) :
                Toggle(x, selection, selectedSize, ingredients) =
                    IF Dependents(x, selection, ingredients) = {}
                    THEN Without(selection, x) ELSE selection)
    /\ [][(ToggleStep /\ Len(selection') < Len(selection))
             => \E x \in Range(selection) :
                   /\ Dependents(x, selection, ingredients) = {}
                   /\ selection' = Without(selection, x)]_vars

\* the ingredients a step added
Added == Range(selection') \ Range(selection)

\* C27: when an add fails at any point of the expansion, the selection
\* stays exactly as it was: a toggle that changes the selection by adding
\* commits a complete expansion, in which every added ingredient has its
\* requirements selected, was in stock, fits the capacity and lists none of
\* the ingredients selected before it as incompatible.
C27_NoPartialExpansion ==
    /\ [](call.phase = "none" =>
            \A x \in CatalogIds \ Range(selection) :
                (\/ selectedSize = 0
                 \/ ~addRequiredIngredientsRecursively(
                        x, selection, ConfiguratorSizes[selectedSize].maxIngredients,
                        ingredients).success)
                    => Toggle(x, selection, selectedSize, ingredients) = selection)
    /\ [][AddStep =>
            /\ Len(selection') <= ConfiguratorSizes[selectedSize].maxIngredients
            /\ \A k \in DOMAIN selection' :
                  selection'[k] \in Added =>
                     /\ ~Unavailable(ingredients[selection'[k]])
                     /\ Requires(selection'[k], ingredients)
                           \subseteq SelectedNames(selection', ingredients)
                     /\ Incompatible(selection'[k], ingredients)
                           \cap SelectedNames(SubSeq(selection', 1, k - 1), ingredients) = {}]_vars

\* anchovies is selected on the small size, and tuna, which is in stock and
\* compatible, requires olives, which has no unit left: the add of tuna
\* fails at olives
C27_Witness ==
    /\ call.phase = "none" /\ selectedSize = 1 /\ selection = <<8>>
    /\ ~Unavailable(ingredients[6])
    /\ "olives" \in Requires(6, ingredients)
    /\ Unavailable(ingredients[5])

----------------------------------------------------------------------------
(* Properties of the stock and of the recorded orders, under Spec *)

\* C25: an ingredient with unlimited stock stays unlimited: no sequence of
\* order creations and cancellations changes its availability or gives it
\* a counter.
C25_UnlimitedStays ==
    \A i \in IngredientIds :
        InitialAvailability[i].null => availability[i] = Null

\* an order with olives, which is unlimited, was placed and cancelled
C25_Witness ==
    /\ InitialAvailability[5].null
    /\ \E o \in DOMAIN orders : orders[o].status = "cancelled" /\ <<o, 5>> \in restored

\* the order is recorded and no statement of its creation is left to run
Recorded(o) == o \in DOMAIN orders /\ ~CreatingOrder(o)

CancelRejections == {"not_authenticated", "missing_totp", "invalid_id", "not_found"}

\* this step answers a cancel request of slot r with a rejection
RejectsCancel(r) ==
    /\ req'[r] # req[r] /\ req'[r].kind = "cancel" /\ req'[r].pc = "done"
    /\ req'[r].resp.tag \in CancelRejections

\* C28: a cancel request that is rejected, for a missing session, a missing
\* TOTP, an order of another user, an order already cancelled or an order
\* that does not exist, leaves the status of every order and every counter
\* unchanged.
C28_RejectedCancelWritesNothing ==
    [][\A r \in Slots : RejectsCancel(r) => UNCHANGED <<orders, availability, orderIngredients>>]_vars

\* a cancel request of another user for a confirmed order was answered
\* not found
C28_Witness ==
    \E r \in Slots :
        /\ req[r].kind = "cancel" /\ req[r].pc = "done" /\ req[r].resp.tag = "not_found"
        /\ req[r].orderId \in DOMAIN orders
        /\ req[r].user # orders[req[r].orderId].user
        /\ orders[req[r].orderId].status = "confirmed"

\* C29: no counter of a finite-stock ingredient ever exceeds the value it
\* had in the initial state.
C29_StockBounded ==
    \A i \in IngredientIds :
        ~InitialAvailability[i].null => availability[i].v <= InitialAvailability[i].v


====
